---- MODULE Spec2Model ----
(***************************************************************************)
(* RequestCoalescer (src/src/do/RequestCoalescer.ts): request coalescing   *)
(* with a memory tier, a persistent tier, an in-flight registry, stale-    *)
(* while-revalidate and last-known-good fallback.                          *)
(*                                                                         *)
(* Every fetchCoalesced call is a process.  A call runs atomically from    *)
(* one suspension point to the next; the suspension points are the awaits  *)
(* on the persistent tier (storage.get, storage.put) and on the upstream   *)
(* call (fetch).  A storage operation takes effect when its await resumes. *)
(* A read of the persistent tier answers with the entry or with nothing; a *)
(* write succeeds or fails (the contract of the persistent tier), and the  *)
(* writes of one key are applied in the order they were issued.            *)
(* A promise that settles resumes its awaiters in the same step.           *)
(*                                                                         *)
(* An upstream fetch (one invocation of fetchUpstreamAndCache) is          *)
(* identified by the call that started it, so fetch f is the fetch started *)
(* by call f, and the promise stored in the registry is that identifier.   *)
(* Headers are modelled by the two headers that vary: CF-Cache-Status (cs) *)
(* and X-LKG-Age (age).  The body of an upstream response is an opaque     *)
(* token that names the upstream invocation that produced it.              *)
(***************************************************************************)
EXTENDS Integers, FiniteSets, Sequences, TLC

\* ---------------------------------------------------------------- bounds
MaxCallers == 3
MaxTime == 4
MaxLiveCallers == 2

\* ------------------------------------------- configuration (env, scaled)
FRESH_TTL_MS == 2
STALE_TTL_MS == 3

Callers == 1..MaxCallers
Keys == {"k1", "k2"}
OneKey == {"k1"}
Statuses == {200, 404, 500}

NoFetch == 0
NoAge == -1
Threw == -1

NoEntry == [status |-> 0, body |-> 0, cs |-> "none", expiresAt |-> -1, persistedAt |-> -1]
NoResp == [outcome |-> "none", status |-> 0, body |-> 0, cs |-> "none", age |-> NoAge, err |-> "none"]

\* A call: its position (pc), its locals (key, now, the promise it awaits),
\* its answer (resp) and which step produced it (how).  seen and win record
\* what the persistent tier held when the call started; a call that has
\* returned keeps its answer, seen without the timestamps, and win.
IdleCaller == [pc |-> "idle", key |-> "k1", now |-> 0, awaiting |-> NoFetch, how |-> "none", resp |-> NoResp, win |-> "none", seen |-> NoEntry]

\* An upstream fetch: its position, its key, who started it (kind), the
\* upstream outcome it got (upstatus) and the entry it is writing (entry);
\* a settled fetch keeps its key, kind and upstream outcome.
NoFetchRec == [pc |-> "none", key |-> "k1", kind |-> "none", upstatus |-> 0, entry |-> NoEntry]

VARIABLES now, memoryCache, storage, inflightRequests, callers, fetches

vars == <<now, memoryCache, storage, inflightRequests, callers, fetches>>

\* ------------------------------------------------------ pure operations

\* the response a cache hit is answered with: the entry minus its timestamps
EntryResponse(e) == [outcome |-> "resolved", status |-> e.status, body |-> e.body, cs |-> e.cs, age |-> NoAge, err |-> "none"]

\* checkMemoryCache: the entry is returned when present and unexpired
checkMemoryCache(k, n) ==
  IF memoryCache[k] # NoEntry /\ memoryCache[k].expiresAt > n
    THEN EntryResponse(memoryCache[k])
    ELSE NoResp

\* checkStorageCache, the test applied to the entry the read returned
isFresh(persisted, n) == persisted # NoEntry /\ persisted.persistedAt + FRESH_TTL_MS > n

\* mutant of WarmedEntry: the entry is copied with its own expiresAt
WarmedEntryKeepsExpiry(persisted, n) == persisted

\* checkStorageCache, the entry written to the memory tier on a hit
WarmedEntry(persisted, n) == [persisted EXCEPT !.expiresAt = n + FRESH_TTL_MS]

\* mutant of checkInflightRequest: an entry of another key is taken when
\* the key has none
checkInflightRequestAnyKey(k) ==
  IF inflightRequests[k] # NoFetch
    THEN inflightRequests[k]
    ELSE inflightRequests[CHOOSE j \in Keys : j # k]

\* checkInflightRequest
checkInflightRequest(k) == inflightRequests[k]

\* mutant of isWithinStaleWindow: an entry of any age is served stale
isWithinStaleWindowAnyAge(persisted, n) == persisted # NoEntry

\* tryServeStale, the test applied to the entry the read returned
isWithinStaleWindow(persisted, n) == persisted # NoEntry /\ persisted.persistedAt + STALE_TTL_MS > n

\* mutant of StaleResponse: the CF-Cache-Status header is not overridden
StaleResponseUntagged(persisted) == [outcome |-> "resolved", status |-> persisted.status, body |-> persisted.body, cs |-> persisted.cs, age |-> NoAge, err |-> "none"]

\* tryServeStale, the response of a stale serve
StaleResponse(persisted) == [outcome |-> "resolved", status |-> persisted.status, body |-> persisted.body, cs |-> "STALE", age |-> NoAge, err |-> "none"]

\* mutant of getLastKnownGood: an entry past staleTTL is not used
getLastKnownGoodWithinTTL(persisted, n) ==
  IF persisted = NoEntry \/ persisted.persistedAt + STALE_TTL_MS <= n
    THEN NoResp
    ELSE [outcome |-> "resolved", status |-> persisted.status, body |-> persisted.body, cs |-> "LKG", age |-> n - persisted.persistedAt, err |-> "none"]

\* getLastKnownGood, applied to the entry the read returned at time n
getLastKnownGood(persisted, n) ==
  IF persisted = NoEntry
    THEN NoResp
    ELSE [outcome |-> "resolved", status |-> persisted.status, body |-> persisted.body, cs |-> "LKG", age |-> n - persisted.persistedAt, err |-> "none"]

\* fetchUpstreamAndCache, the entry built from an upstream response at time n
CacheEntryOf(st, b, n) == [status |-> st, body |-> b, cs |-> "MISS", expiresAt |-> n + FRESH_TTL_MS, persistedAt |-> n]

\* fetchUpstreamAndCache, the response returned for an upstream response
UpstreamResponse(st, b) == [outcome |-> "resolved", status |-> st, body |-> b, cs |-> "MISS", age |-> NoAge, err |-> "none"]

\* mutant of isCacheable: a 4xx response is written to the tiers too
isCacheableBelow500(st) == st < 500

\* mutant of isCacheable: every response is written to the tiers
isCacheableAlways(st) == TRUE

\* fetchUpstreamAndCache, only responses below 400 are written to the tiers
isCacheable(st) == st < 400

\* mutant of isServerError: a 4xx response is treated as a failure too
isServerErrorFrom400(st) == st >= 400

\* fetchUpstreamAndCache, a 5xx response tries the last known good entry
isServerError(st) == st >= 500

\* fetchUpstreamAndCache throws the error its catch block caught
Rejection(error) == [outcome |-> "rejected", status |-> 0, body |-> 0, cs |-> "none", age |-> NoAge, err |-> error]

\* ---------------------------------------------------------------- state

Init ==
  /\ now = 0
  /\ memoryCache = [k \in Keys |-> NoEntry]
  /\ storage = [k \in Keys |-> NoEntry]
  /\ inflightRequests = [k \in Keys |-> NoFetch]
  /\ callers = [c \in Callers |-> IdleCaller]
  /\ fetches = [f \in Callers |-> NoFetchRec]

\* where time n lies in the windows of the persisted entry e
Window(e, n) ==
  IF e = NoEntry THEN "absent"
  ELSE IF n < e.persistedAt + FRESH_TTL_MS THEN "fresh"
  ELSE IF n < e.persistedAt + STALE_TTL_MS THEN "stale"
  ELSE "expired"

\* what a call that has returned keeps of the entry it started with
Kept(e) == IF e = NoEntry THEN NoEntry ELSE [e EXCEPT !.expiresAt = 0, !.persistedAt = 0]

\* fetchCoalesced returns r from the step named how
Returned(cr, how, r) ==
  [cr EXCEPT !.pc = "done", !.how = how, !.resp = r, !.now = 0, !.seen = Kept(cr.seen)]

\* mutant of Delivered: only the call that started the fetch receives
\* its result, a joiner is answered with an empty success
DeliveredStarterOnly(f, r) ==
  [c \in Callers |->
     IF callers[c].pc = "join" /\ callers[c].awaiting = f
       THEN Returned(callers[c], "fetch", IF c = f THEN r ELSE UpstreamResponse(200, 0))
       ELSE callers[c]]

\* mutant of Delivered: only the call that started the fetch is resumed,
\* a joiner keeps waiting
DeliveredToStarter(f, r) ==
  [c \in Callers |->
     IF callers[c].pc = "join" /\ callers[c].awaiting = f /\ c = f
       THEN Returned(callers[c], "fetch", r)
       ELSE callers[c]]

\* the callers that await promise f receive its result when it settles
Delivered(f, r) ==
  [c \in Callers |->
     IF callers[c].pc = "join" /\ callers[c].awaiting = f
       THEN Returned(callers[c], "fetch", r)
       ELSE callers[c]]

\* mutant of DeleteInflight: the entry is left in the registry
DeleteInflightNever(k) == inflightRequests

\* the .finally of fetchAndCoalesce and of backgroundRefresh
DeleteInflight(k) == [inflightRequests EXCEPT ![k] = NoFetch]

\* fetchUpstreamAndCache returns or throws: the promise settles, its
\* .finally removes the registry entry of the key, the awaiters resume
Settle(f, r) ==
  /\ fetches' = [fetches EXCEPT ![f] = [fetches[f] EXCEPT !.pc = "settled", !.entry = NoEntry]]
  /\ inflightRequests' = DeleteInflight(fetches[f].key)
  /\ callers' = Delivered(f, r)

\* fetchUpstreamAndCache up to its await on the upstream call
StartedFetch(f, k, kind) ==
  [fetches EXCEPT ![f] = [NoFetchRec EXCEPT !.pc = "fetching", !.key = k, !.kind = kind]]

\* time passes
Tick ==
  /\ now < MaxTime
  /\ now' = now + 1
  /\ UNCHANGED <<memoryCache, storage, inflightRequests, callers, fetches>>

\* fetchCoalesced up to its first await: step 1, then the read of step 2
Start(c, k) ==
  /\ callers[c].pc = "idle"
  /\ IF c = 1 THEN TRUE ELSE callers[c - 1].pc # "idle"
  /\ LET memoryCacheResult == checkMemoryCache(k, now)
         started == [IdleCaller EXCEPT !.pc = "s2", !.key = k, !.now = now, !.seen = storage[k],
                                       !.win = IF storage[k] = NoEntry /\ memoryCache[k] = NoEntry
                                                 THEN "cold" ELSE Window(storage[k], now)]
     IN IF memoryCacheResult # NoResp
          THEN callers' = [callers EXCEPT ![c] = Returned(started, "memory", memoryCacheResult)]
          ELSE callers' = [callers EXCEPT ![c] = started]
  /\ UNCHANGED <<now, memoryCache, storage, inflightRequests, fetches>>

\* mutant of CheckStorageResume: the registry is consulted before the
\* entry the read returned
CheckStorageResumeJoinFirst(c) ==
  /\ callers[c].pc = "s2"
  /\ LET k == callers[c].key
         persisted == storage[k]
     IN IF checkInflightRequest(k) # NoFetch
          THEN /\ memoryCache' = memoryCache
               /\ callers' = [callers EXCEPT ![c].pc = "join", ![c].awaiting = checkInflightRequest(k)]
          ELSE IF isFresh(persisted, callers[c].now)
            THEN /\ memoryCache' = [memoryCache EXCEPT ![k] = WarmedEntry(persisted, callers[c].now)]
                 /\ callers' = [callers EXCEPT ![c] = Returned(callers[c], "storage", EntryResponse(persisted))]
            ELSE /\ memoryCache' = memoryCache
                 /\ callers' = [callers EXCEPT ![c].pc = "s4"]
  /\ UNCHANGED <<now, storage, inflightRequests, fetches>>

\* mutant of CheckStorageResume: step 3 is skipped
CheckStorageResumeSkipsJoin(c) ==
  /\ callers[c].pc = "s2"
  /\ LET k == callers[c].key
         persisted == storage[k]
     IN IF isFresh(persisted, callers[c].now)
          THEN /\ memoryCache' = [memoryCache EXCEPT ![k] = WarmedEntry(persisted, callers[c].now)]
               /\ callers' = [callers EXCEPT ![c] = Returned(callers[c], "storage", EntryResponse(persisted))]
          ELSE /\ memoryCache' = memoryCache
               /\ callers' = [callers EXCEPT ![c].pc = "s4"]
  /\ UNCHANGED <<now, storage, inflightRequests, fetches>>

\* the read of step 2 resumes: checkStorageCache, then step 3, then
\* tryServeStale up to its read
CheckStorageResume(c) ==
  /\ callers[c].pc = "s2"
  /\ LET k == callers[c].key
         persisted == storage[k]
     IN IF isFresh(persisted, callers[c].now)
          THEN /\ memoryCache' = [memoryCache EXCEPT ![k] = WarmedEntry(persisted, callers[c].now)]
               /\ callers' = [callers EXCEPT ![c] = Returned(callers[c], "storage", EntryResponse(persisted))]
          ELSE /\ memoryCache' = memoryCache
               /\ IF checkInflightRequest(k) # NoFetch
                    THEN callers' = [callers EXCEPT ![c].pc = "join", ![c].awaiting = checkInflightRequest(k)]
                    ELSE callers' = [callers EXCEPT ![c].pc = "s4"]
  /\ UNCHANGED <<now, storage, inflightRequests, fetches>>

\* mutant of backgroundRefresh: the registry is not consulted
backgroundRefreshUnchecked(c, k) ==
  /\ fetches' = StartedFetch(c, k, "refresh")
  /\ inflightRequests' = [inflightRequests EXCEPT ![k] = c]

\* backgroundRefresh up to its await: nothing when the registry has the key
backgroundRefresh(c, k) ==
  IF inflightRequests[k] # NoFetch
    THEN /\ fetches' = fetches
         /\ inflightRequests' = inflightRequests
    ELSE /\ fetches' = StartedFetch(c, k, "refresh")
         /\ inflightRequests' = [inflightRequests EXCEPT ![k] = c]

\* fetchAndCoalesce: the fetch starts and its promise is registered
fetchAndCoalesce(c, k) ==
  /\ fetches' = StartedFetch(c, k, "cold")
  /\ inflightRequests' = [inflightRequests EXCEPT ![k] = c]

\* the read of step 4 resumes: tryServeStale, then step 5
TryServeStaleResume(c) ==
  /\ callers[c].pc = "s4"
  /\ LET k == callers[c].key
         persisted == storage[k]
     IN IF isWithinStaleWindow(persisted, callers[c].now)
          THEN /\ backgroundRefresh(c, k)
               /\ callers' = [callers EXCEPT ![c] = Returned(callers[c], "stale", StaleResponse(persisted))]
          ELSE /\ fetchAndCoalesce(c, k)
               /\ callers' = [callers EXCEPT ![c].pc = "join", ![c].awaiting = c]
  /\ UNCHANGED <<now, memoryCache, storage>>

\* the upstream call resolves with a response of status st
UpstreamRespond(f, st) ==
  /\ fetches[f].pc = "fetching"
  /\ LET k == fetches[f].key
     IN IF isServerError(st)
          THEN /\ fetches' = [fetches EXCEPT ![f].pc = "lkg5xx", ![f].upstatus = st]
               /\ UNCHANGED <<memoryCache, inflightRequests, callers>>
          ELSE IF isCacheable(st)
            THEN /\ memoryCache' = [memoryCache EXCEPT ![k] = CacheEntryOf(st, f, now)]
                 /\ fetches' = [fetches EXCEPT ![f].pc = "putting", ![f].upstatus = st, ![f].entry = CacheEntryOf(st, f, now)]
                 /\ UNCHANGED <<inflightRequests, callers>>
            ELSE /\ fetches' = [fetches EXCEPT ![f] = [fetches[f] EXCEPT !.pc = "settled", !.upstatus = st]]
                 /\ inflightRequests' = DeleteInflight(k)
                 /\ callers' = Delivered(f, UpstreamResponse(st, f))
                 /\ UNCHANGED memoryCache
  /\ UNCHANGED <<now, storage>>

\* mutant of UpstreamThrow: the upstream call is attempted again
UpstreamThrowRetries(f) ==
  /\ fetches[f].pc = "fetching"
  /\ fetches' = [fetches EXCEPT ![f].upstatus = Threw]
  /\ UNCHANGED <<now, memoryCache, storage, inflightRequests, callers>>

\* the upstream call rejects: the catch block reads the last known good
UpstreamThrow(f) ==
  /\ fetches[f].pc = "fetching"
  /\ fetches' = [fetches EXCEPT ![f].pc = "lkgCatch", ![f].upstatus = Threw]
  /\ UNCHANGED <<now, memoryCache, storage, inflightRequests, callers>>

\* mutant of After5xx: with no entry to fall back on the call rejects
After5xxRejects(f, lkg) == IF lkg # NoResp THEN lkg ELSE Rejection("UpstreamError")

\* the 5xx branch once getLastKnownGood has answered lkg: the entry, else
\* the 5xx response, which is not written to the tiers
After5xx(f, lkg) == IF lkg # NoResp THEN lkg ELSE UpstreamResponse(fetches[f].upstatus, f)

\* the error the catch block of fetch f caught: the upstream call's, or
\* that of storage.put
CaughtError(f) == IF fetches[f].upstatus = Threw THEN "UpstreamError" ELSE "StorageError"

\* mutant of AfterCatch: with no entry to fall back on the error is
\* swallowed and an empty success returned
AfterCatchSwallowed(f, lkg) == IF lkg # NoResp THEN lkg ELSE UpstreamResponse(200, 0)

\* the catch block once getLastKnownGood has answered lkg: the entry, else
\* the error is thrown again
AfterCatch(f, lkg) == IF lkg # NoResp THEN lkg ELSE Rejection(CaughtError(f))

\* the read of getLastKnownGood resumes in the 5xx branch
Lkg5xxResume(f) ==
  /\ fetches[f].pc = "lkg5xx"
  /\ Settle(f, After5xx(f, getLastKnownGood(storage[fetches[f].key], now)))
  /\ UNCHANGED <<now, memoryCache, storage>>

\* the read of getLastKnownGood resumes in the catch block
LkgCatchResume(f) ==
  /\ fetches[f].pc = "lkgCatch"
  /\ Settle(f, AfterCatch(f, getLastKnownGood(storage[fetches[f].key], now)))
  /\ UNCHANGED <<now, memoryCache, storage>>

\* the writes of key k that were issued before the write of fetch f and
\* are still pending (CacheEntryOf stamps an entry when its write is issued)
EarlierPuts(f) ==
  {g \in Callers : /\ fetches[g].pc = "putting" /\ fetches[g].key = fetches[f].key
                   /\ fetches[g].entry.persistedAt < fetches[f].entry.persistedAt}

\* mutant of PutDone: the writes of one key complete in any order
PutDoneAnyOrder(f) ==
  /\ fetches[f].pc = "putting"
  /\ storage' = [storage EXCEPT ![fetches[f].key] = fetches[f].entry]
  /\ Settle(f, UpstreamResponse(fetches[f].entry.status, fetches[f].entry.body))
  /\ UNCHANGED <<now, memoryCache>>

\* storage.put resumes; the persistent tier applies the writes of one key
\* in the order they were issued
PutDone(f) ==
  /\ fetches[f].pc = "putting"
  /\ EarlierPuts(f) = {}
  /\ storage'= [storage EXCEPT ![fetches[f].key] = fetches[f].entry]
  /\ Settle(f, UpstreamResponse(fetches[f].entry.status, fetches[f].entry.body))
  /\ UNCHANGED <<now, memoryCache>>

\* storage.put rejects: the await is inside the try, so the catch block
\* runs and reads the last known good; the memory tier keeps the entry
PutFail(f) ==
  /\ fetches[f].pc = "putting"
  /\ fetches' = [fetches EXCEPT ![f].pc = "lkgCatch"]
  /\ UNCHANGED <<now, memoryCache, storage, inflightRequests, callers>>

\* mutant of Restart: the persistent tier is lost as well
RestartLosesStorage ==
  /\ \A c \in Callers : callers[c].pc \in {"idle", "done"}
  /\ \A f \in Callers : fetches[f].pc \in {"none", "settled"}
  /\ \E k \in Keys : memoryCache[k] # NoEntry
  /\ memoryCache' = [k \in Keys |-> NoEntry]
  /\ inflightRequests' = [k \in Keys |-> NoFetch]
  /\ storage' = [k \in Keys |-> NoEntry]
  /\ UNCHANGED <<now, callers, fetches>>

\* hibernation: with no call in progress and no fetch pending the instance
\* is discarded and constructed again; the memory tier and the registry
\* are lost, the persistent tier survives
Restart ==
  /\ \A c \in Callers : callers[c].pc \in {"idle", "done"}
  /\ \A f \in Callers : fetches[f].pc \in {"none", "settled"}
  /\ \E k \in Keys : memoryCache[k] # NoEntry
  /\ memoryCache' = [k \in Keys |-> NoEntry]
  /\ inflightRequests' = [k \in Keys |-> NoFetch]
  /\ UNCHANGED <<now, storage, callers, fetches>>

Next ==
  \/ Tick
  \/ Restart
  \/ \E c \in Callers, k \in OneKey : Start(c, k)
  \/ \E c \in Callers : CheckStorageResume(c)
  \/ \E c \in Callers : TryServeStaleResume(c)
  \/ \E f \in Callers, st \in Statuses : UpstreamRespond(f, st)
  \/ \E f \in Callers : UpstreamThrow(f)
  \/ \E f \in Callers : Lkg5xxResume(f)
  \/ \E f \in Callers : LkgCatchResume(f)
  \/ \E f \in Callers : PutDone(f)
  \/ \E f \in Callers : PutFail(f)

Spec == Init /\ [][Next]_vars

\* ----------------------------------------------------------- derived

Pending(f) == fetches[f].pc \in {"fetching", "lkg5xx", "lkgCatch", "putting"}
PendingFor(k) == {f \in Callers : Pending(f) /\ fetches[f].key = k}

InProgress(c) == callers[c].pc \in {"s2", "s4", "join"}

TypeOK ==
  /\ now \in 0..MaxTime
  /\ \A c \in Callers : callers[c].pc \in {"idle", "s2", "s4", "join", "done", "abandoned"}
  /\ \A f \in Callers : fetches[f].pc \in {"none", "fetching", "lkg5xx", "lkgCatch", "putting", "settled"}

\* ------------------------------------------------------------ claims

\* C1: calls for one key that are in progress together and started while
\* neither tier held an entry for the key are answered by one upstream
\* invocation: they all await the same fetch, whose result each receives.
C1_Coalescing ==
  \A c1, c2 \in Callers :
    ( /\ callers[c1].pc = "join" /\ callers[c2].pc = "join"
      /\ callers[c1].key = callers[c2].key
      /\ callers[c1].win = "cold" /\ callers[c2].win = "cold" )
    => callers[c1].awaiting = callers[c2].awaiting

\* C2: at most one upstream fetch is pending per key, cold fetches and
\* refreshes together.
C2_SingleFlight == \A k \in Keys : Cardinality(PendingFor(k)) <= 1

\* C3: a call that starts within freshTTL of the persistedAt of the entry
\* the persistent tier holds is answered with that entry's status, headers
\* and body, from a cache tier, and starts no upstream fetch.
C3_Freshness ==
  \A c \in Callers :
    callers[c].win = "fresh" =>
      /\ callers[c].pc \in {"s2", "done"}
      /\ fetches[c].pc = "none"
      /\ callers[c].pc = "done" =>
            /\ callers[c].how \in {"memory", "storage"}
            /\ callers[c].resp.outcome = "resolved"
            /\ callers[c].resp.status = callers[c].seen.status
            /\ callers[c].resp.body = callers[c].seen.body
            /\ callers[c].resp.cs = callers[c].seen.cs
            /\ callers[c].resp.age = NoAge

\* C4 as claimed: a call that starts in the stale window of the persisted
\* entry never waits on an upstream fetch and is answered with that entry's
\* status and body annotated STALE.
C4_StaleAlways ==
  \A c \in Callers :
    callers[c].win = "stale" =>
      /\ callers[c].pc # "join"
      /\ callers[c].pc = "done" =>
            /\ callers[c].how = "stale"
            /\ callers[c].resp.outcome = "resolved"
            /\ callers[c].resp.cs = "STALE"
            /\ callers[c].resp.status = callers[c].seen.status
            /\ callers[c].resp.body = callers[c].seen.body

\* C4 amended: a call that found no in-flight entry at step 3 and reads at
\* step 4 an entry within staleTTL of its start time returns at that step
\* the entry's status and body annotated STALE, while a fetch for the key
\* is still registered; a call that finds an in-flight entry at step 3
\* (and no fresh entry at step 2) awaits that fetch instead.
C4_StaleServe ==
  [][\A c \in Callers :
       LET k == callers[c].key
           e == storage[k]
           t == callers[c].now
       IN /\ ( /\ callers[c].pc = "s4" /\ callers'[c] # callers[c]
               /\ e # NoEntry /\ e.persistedAt + STALE_TTL_MS > t )
             => /\ callers'[c].pc = "done"
                /\ callers'[c].resp.outcome = "resolved"
                /\ callers'[c].resp.status = e.status
                /\ callers'[c].resp.body = e.body
                /\ callers'[c].resp.cs = "STALE"
                /\ inflightRequests'[k] # NoFetch
          /\ (callers[c].pc = "s2" /\ callers'[c].pc = "s4") => inflightRequests[k] = NoFetch
          /\ ( /\ callers[c].pc = "s2" /\ callers'[c] # callers[c]
               /\ inflightRequests[k] # NoFetch
               /\ ~(e # NoEntry /\ e.persistedAt + FRESH_TTL_MS > t) )
             => /\ callers'[c].pc = "join"
                /\ callers'[c].awaiting = inflightRequests[k]
    ]_vars

\* C4 witness: a call that started in the stale window has been served
\* STALE while the refresh is registered and pending
C4_Witness ==
  \E c \in Callers :
    /\ callers[c].pc = "done" /\ callers[c].win = "stale" /\ callers[c].how = "stale"
    /\ callers[c].resp.cs = "STALE"
    /\ inflightRequests[callers[c].key] # NoFetch
    /\ \E f \in Callers : Pending(f) /\ fetches[f].kind = "refresh"

\* C5 as claimed: the requests that start in the stale window of one
\* persisted entry start at most one background refresh between them.
C5_OneRefreshPerWindow ==
  \A c1, c2 \in Callers :
    ( /\ fetches[c1].kind = "refresh" /\ fetches[c2].kind = "refresh"
      /\ fetches[c1].key = fetches[c2].key
      /\ callers[c1].win = "stale" /\ callers[c2].win = "stale"
      /\ callers[c1].seen.body = callers[c2].seen.body )
    => c1 = c2

\* C5 amended: a background refresh is started only when the in-flight
\* registry holds no entry for the key, and it is registered at once; a
\* stale serve that finds an entry registered starts none.
C5_RefreshOnlyWhenUnregistered ==
  [][\A c \in Callers :
       (fetches[c].pc = "none" /\ fetches'[c].kind = "refresh")
         => /\ inflightRequests[fetches'[c].key] = NoFetch
            /\ inflightRequests'[fetches'[c].key] = c
    ]_vars

\* C5 witness: two calls of one stale window were served STALE, the first
\* started the refresh and the second, finding it registered, started none
C5_Witness ==
  \E c1, c2 \in Callers :
    /\ c1 # c2
    /\ callers[c1].how = "stale" /\ callers[c2].how = "stale"
    /\ callers[c1].win = "stale" /\ callers[c2].win = "stale"
    /\ fetches[c1].kind = "refresh" /\ Pending(c1)
    /\ fetches[c2].pc = "none"

\* C6 as claimed: a call that starts at or after persistedAt + staleTTL of
\* the persisted entry is answered by an upstream fetch, never by a fresh
\* hit or a STALE hit.
C6_ExpiredAlwaysFetches ==
  \A c \in Callers :
    (callers[c].win = "expired" /\ callers[c].pc = "done") => callers[c].how = "fetch"

\* C6 amended: a call is answered from the persistent tier (fresh hit at
\* step 2, STALE at step 4) only with an entry within staleTTL of its start
\* time; when the entry it reads at step 4 is absent or past staleTTL it
\* starts an upstream fetch and awaits it.
C6_ColdPath ==
  [][\A c \in Callers :
       LET k == callers[c].key
           e == storage[k]
           t == callers[c].now
       IN /\ (callers[c].pc \in {"s2", "s4"} /\ callers'[c].pc = "done")
             => (e # NoEntry /\ e.persistedAt + STALE_TTL_MS > t)
          /\ ( /\ callers[c].pc = "s4" /\ callers'[c] # callers[c]
               /\ (e = NoEntry \/ e.persistedAt + STALE_TTL_MS <= t) )
             => /\ callers'[c].pc = "join"
                /\ callers'[c].awaiting = c
                /\ fetches'[c].pc = "fetching"
                /\ fetches'[c].kind = "cold"
    ]_vars

\* C6 witness: a call that started past staleTTL of the persisted entry
\* has started an upstream fetch and awaits it
C6_Witness ==
  \E c \in Callers :
    /\ callers[c].win = "expired" /\ callers[c].pc = "join" /\ callers[c].awaiting = c
    /\ fetches[c].pc = "fetching" /\ fetches[c].kind = "cold"

\* the upstream call of fetch f has failed or answered 5xx, and the fetch
\* is reading the last known good entry
UpstreamFailed(f) ==
  \/ fetches[f].pc = "lkg5xx"
  \/ fetches[f].pc = "lkgCatch" /\ fetches[f].upstatus = Threw

\* C7: when the upstream call of a fetch has failed or answered 5xx and the
\* persistent tier holds an entry for the key, whatever its age, the fetch
\* settles with that entry's status and body annotated LKG with an
\* X-LKG-Age >= 0, and every call awaiting the fetch receives it.
C7_LkgFallback ==
  [][\A f \in Callers :
       LET e == storage[fetches[f].key]
       IN (UpstreamFailed(f) /\ fetches'[f].pc = "settled" /\ e # NoEntry)
            => \A c \in Callers :
                 (callers[c].pc = "join" /\ callers[c].awaiting = f)
                   => /\ callers'[c].pc = "done"
                      /\ callers'[c].resp.outcome = "resolved"
                      /\ callers'[c].resp.status = e.status
                      /\ callers'[c].resp.body = e.body
                      /\ callers'[c].resp.cs = "LKG"
                      /\ callers'[c].resp.age >= 0
                      /\ callers'[c].resp.age = now - e.persistedAt
    ]_vars

\* C7 witness: a call whose fetch failed upstream (error or 5xx) received
\* an entry older than staleTTL annotated LKG
C7_Witness ==
  \E c \in Callers :
    /\ callers[c].pc = "done" /\ callers[c].how = "fetch"
    /\ fetches[callers[c].awaiting].upstatus \in {Threw, 500}
    /\ callers[c].resp.cs = "LKG"
    /\ callers[c].resp.age >= STALE_TTL_MS

\* C8: when the upstream call of a fetch has thrown and the persistent tier
\* holds no entry for the key, the call that started the fetch and every
\* joiner reject with the upstream error.
C8_NoLkgFailure ==
  [][\A f \in Callers :
       ( /\ fetches[f].pc = "lkgCatch" /\ fetches[f].upstatus = Threw
         /\ fetches'[f].pc = "settled"
         /\ storage[fetches[f].key] = NoEntry )
         => /\ callers[f].pc = "join" /\ callers[f].awaiting = f
            /\ \A c \in Callers :
                 (callers[c].pc = "join" /\ callers[c].awaiting = f)
                   => /\ callers'[c].pc = "done"
                      /\ callers'[c].resp.outcome = "rejected"
                      /\ callers'[c].resp.err = "UpstreamError"
    ]_vars

\* C8 witness: the starter of a fetch and a joiner have both rejected with
\* the upstream error
C8_Witness ==
  \E c1, c2 \in Callers :
    /\ c1 # c2
    /\ callers[c1].pc = "done" /\ callers[c1].awaiting = c1
    /\ callers[c2].pc = "done" /\ callers[c2].awaiting = c1
    /\ callers[c1].resp.outcome = "rejected" /\ callers[c1].resp.err = "UpstreamError"
    /\ callers[c2].resp.outcome = "rejected" /\ callers[c2].resp.err = "UpstreamError"
    /\ storage[callers[c1].key] = NoEntry

\* C9 as claimed: a call rejects exactly when the upstream call of the
\* fetch it awaits has thrown and the persistent tier holds no entry for
\* the key; in every other case it resolves.
C9_RejectsOnlyOnUpstreamFailure ==
  [][\A c \in Callers :
       (callers[c].pc # "done" /\ callers'[c].pc = "done")
         => /\ callers'[c].resp.outcome \in {"resolved", "rejected"}
            /\ callers'[c].resp.outcome = "rejected"
                 <=> /\ callers[c].pc = "join"
                     /\ fetches[callers[c].awaiting].pc = "lkgCatch"
                     /\ fetches[callers[c].awaiting].upstatus = Threw
                     /\ storage[callers[c].key] = NoEntry
    ]_vars

\* C10: the calls that await the same fetch, the one that started it
\* included, return together and with the same outcome: the same response
\* or the same error.
C10_SharedOutcome ==
  \A c1, c2 \in Callers :
    (callers[c1].awaiting # NoFetch /\ callers[c1].awaiting = callers[c2].awaiting)
      => /\ callers[c1].pc = callers[c2].pc
         /\ callers[c1].resp = callers[c2].resp

\* C10 witness: the starter of a fetch and a joiner have both received its
\* response
C10_Witness ==
  \E c1, c2 \in Callers :
    /\ c1 # c2
    /\ callers[c1].pc = "done" /\ callers[c1].awaiting = c1
    /\ callers[c2].pc = "done" /\ callers[c2].awaiting = c1
    /\ callers[c1].resp.outcome = "resolved"
    /\ callers[c2].resp = callers[c1].resp

\* C11 as claimed: a registration step (the set of fetchAndCoalesce or of
\* backgroundRefresh) puts an entry in the registry only when the registry
\* holds none for the key; it never replaces the entry of a fetch that has
\* not settled.
C11_RegisterOnlyWhenAbsent ==
  [][\A k \in Keys :
       (inflightRequests'[k] # NoFetch /\ inflightRequests'[k] # inflightRequests[k])
         => inflightRequests[k] = NoFetch
    ]_vars

\* the awaits of the code resume: the upstream call settles (the proviso
\* of the claims about termination), and the persistent tier answers every
\* read and every write; calls arrive and time passes without obligation
Fairness ==
  /\ \A c \in Callers : WF_vars(CheckStorageResume(c)) /\ WF_vars(TryServeStaleResume(c))
  /\ \A f \in Callers : WF_vars((\E st \in Statuses : UpstreamRespond(f, st)) \/ UpstreamThrow(f))
  /\ \A f \in Callers : WF_vars(Lkg5xxResume(f)) /\ WF_vars(LkgCatchResume(f))
  /\ \A f \in Callers : WF_vars(PutDone(f) \/ PutFail(f))

\* the specification of the claims about termination: the same steps with
\* the calls limited to MaxLiveCallers, under Fairness
LiveNext ==
  \/ Tick
  \/ Restart
  \/ \E c \in 1..MaxLiveCallers, k \in OneKey : Start(c, k)
  \/ \E c \in Callers : CheckStorageResume(c)
  \/ \E c \in Callers : TryServeStaleResume(c)
  \/ \E f \in Callers, st \in Statuses : UpstreamRespond(f, st)
  \/ \E f \in Callers : UpstreamThrow(f)
  \/ \E f \in Callers : Lkg5xxResume(f)
  \/ \E f \in Callers : LkgCatchResume(f)
  \/ \E f \in Callers : PutDone(f)
  \/ \E f \in Callers : PutFail(f)

LiveSpec == Init /\ [][LiveNext]_vars /\ Fairness

\* C12: an entry of the registry belongs to a fetch that has not settled
\* (no entry outlives its fetch), and every registered fetch settles, by
\* resolving or by rejecting, after which the registry holds no entry for it.
C12_EntryRemoved ==
  /\ [](\A k \in Keys, f \in Callers :
          inflightRequests[k] = f => (Pending(f) /\ fetches[f].key = k))
  /\ \A k \in Keys, f \in Callers :
       (inflightRequests[k] = f) ~> (fetches[f].pc = "settled" /\ inflightRequests[k] # f)

\* C12 witness: a registered fetch has settled by rejecting, another by
\* resolving, and the registry holds no entry
C12_Witness ==
  /\ \A k \in Keys : inflightRequests[k] = NoFetch
  /\ \E c1, c2 \in Callers :
       /\ fetches[c1].pc = "settled" /\ callers[c1].pc = "done" /\ callers[c1].awaiting = c1
       /\ callers[c1].resp.outcome = "rejected"
       /\ fetches[c2].pc = "settled" /\ callers[c2].pc = "done" /\ callers[c2].awaiting = c2
       /\ callers[c2].resp.outcome = "resolved"

\* C13 as claimed: the CF-Cache-Status of a response tells how it was
\* produced: none on a fresh hit (memory or persistent tier), MISS only on
\* the response of the upstream fetch the call awaited, STALE only on a
\* stale serve, LKG only on the fallback of a fetch whose upstream call
\* failed or answered 5xx.
C13_CacheStatus ==
  \A c \in Callers :
    (callers[c].pc = "done" /\ callers[c].resp.outcome = "resolved") =>
      /\ callers[c].how \in {"memory", "storage"} => callers[c].resp.cs = "none"
      /\ callers[c].resp.cs = "MISS" => callers[c].how = "fetch"
      /\ callers[c].resp.cs = "STALE" <=> callers[c].how = "stale"
      /\ callers[c].resp.cs = "LKG" => callers[c].how = "fetch"

\* C14 as claimed: a call that starts at time t and is answered by a fresh
\* hit, from the memory tier at step 1 or from the persistent tier at step
\* 2, is answered with an entry for which t < persistedAt + freshTTL.
C14_FreshWithinTTL ==
  [][\A c \in Callers :
       /\ (callers[c].pc = "idle" /\ callers'[c].pc = "done")
            => now < memoryCache[callers'[c].key].persistedAt + FRESH_TTL_MS
       /\ (callers[c].pc = "s2" /\ callers'[c].pc = "done")
            => callers[c].now < storage[callers[c].key].persistedAt + FRESH_TTL_MS
    ]_vars

AbandonCancels(c) ==
  /\ callers[c].pc = "join"
  /\ callers' = [callers EXCEPT ![c].pc = "abandoned"]
  /\ fetches' = IF callers[c].awaiting = c
                  THEN [fetches EXCEPT ![c] = [fetches[c] EXCEPT !.pc = "settled", !.entry = NoEntry]]
                  ELSE fetches
  /\ UNCHANGED <<now, memoryCache, storage, inflightRequests>>

\* the caller of a call that awaits a fetch goes away: nothing in the
\* instance observes it, the promise and its .finally are untouched
Abandon(c) ==
  /\ callers[c].pc = "join"
  /\ callers' = [callers EXCEPT ![c].pc = "abandoned"]
  /\ UNCHANGED <<now, memoryCache, storage, inflightRequests, fetches>>

AbandonNext == LiveNext \/ \E c \in Callers : Abandon(c)

AbandonSpec == Init /\ [][AbandonNext]_vars /\ Fairness

\* C16: a fetch whose starting call has been abandoned still settles; when
\* the upstream answers with a cacheable status it writes the memory tier
\* and, when the write completes, the persistent tier; when it settles its
\* registry entry is gone and every call still awaiting it is answered.
C16_AbandonedFetchCompletes ==
  /\ \A f \in Callers :
       (callers[f].pc = "abandoned" /\ callers[f].awaiting = f /\ Pending(f))
         ~> (fetches[f].pc = "settled" /\ inflightRequests[fetches[f].key] # f)
  /\ [][\A f \in Callers :
          LET k == fetches[f].key
          IN (callers'[f].pc = "abandoned" /\ callers[f].awaiting = f) =>
               /\ (fetches[f].pc = "fetching" /\ fetches'[f].upstatus \in 200..399)
                    => /\ fetches'[f].pc = "putting"
                       /\ memoryCache'[k] = fetches'[f].entry
                       /\ fetches'[f].entry.status = fetches'[f].upstatus
               /\ (fetches[f].pc = "putting" /\ fetches'[f].pc = "settled")
                    => storage'[k] = fetches[f].entry
               /\ (Pending(f) /\ fetches'[f].pc = "settled")
                    => /\ inflightRequests'[k] = NoFetch
                       /\ \A c \in Callers :
                            (callers[c].pc = "join" /\ callers[c].awaiting = f)
                              => /\ callers'[c].pc = "done"
                                 /\ callers'[c].resp.outcome \in {"resolved", "rejected"}
       ]_vars

\* C16 witness: the call that started a fetch was abandoned, the fetch
\* wrote both tiers and left the registry, and a joiner got its response
C16_Witness ==
  \E f, c \in Callers :
    /\ c # f
    /\ callers[f].pc = "abandoned" /\ callers[f].awaiting = f
    /\ fetches[f].pc = "settled" /\ fetches[f].upstatus = 200
    /\ storage[fetches[f].key].body = f /\ memoryCache[fetches[f].key].body = f
    /\ inflightRequests[fetches[f].key] = NoFetch
    /\ callers[c].pc = "done" /\ callers[c].awaiting = f
    /\ callers[c].resp.outcome = "resolved" /\ callers[c].resp.body = f

\* C17: when the upstream answers a fetch with a status from 400 to 499
\* the fetch settles at once with that status and the upstream body
\* annotated MISS, and every call awaiting it receives that response, not
\* a last known good entry, whatever the persistent tier holds.
C17_ClientErrorPassedThrough ==
  [][\A f \in Callers :
       (fetches[f].pc = "fetching" /\ fetches'[f].upstatus \in 400..499)
         => /\ fetches'[f].pc = "settled"
            /\ \A c \in Callers :
                 (callers[c].pc = "join" /\ callers[c].awaiting = f)
                   => /\ callers'[c].pc = "done"
                      /\ callers'[c].resp.outcome = "resolved"
                      /\ callers'[c].resp.status = fetches'[f].upstatus
                      /\ callers'[c].resp.body = f
                      /\ callers'[c].resp.cs = "MISS"
                      /\ callers'[c].resp.age = NoAge
    ]_vars

\* C17 witness: a call that started with an entry in the persistent tier
\* past staleTTL received the 404 of the upstream annotated MISS
C17_Witness ==
  \E c \in Callers :
    /\ callers[c].pc = "done" /\ callers[c].how = "fetch" /\ callers[c].win = "expired"
    /\ storage[callers[c].key] # NoEntry
    /\ fetches[callers[c].awaiting].upstatus = 404
    /\ callers[c].resp.status = 404 /\ callers[c].resp.cs = "MISS"

\* C18: when the upstream answers a fetch with a status >= 500 nothing is
\* written to the tiers, and when the read of the last known good entry
\* finds no entry for the key the fetch settles with the upstream status
\* itself: every call awaiting it receives a resolved response with that
\* status, and neither tier is written.
C18_ServerErrorWithoutLkg ==
  [][\A f \in Callers :
       LET k == fetches[f].key
       IN /\ (fetches[f].pc = "fetching" /\ fetches'[f].upstatus >= 500)
               => (fetches'[f].pc = "lkg5xx" /\ memoryCache' = memoryCache /\ storage' = storage)
          /\ (fetches[f].pc = "lkg5xx" /\ fetches'[f].pc = "settled" /\ storage[k] = NoEntry)
               => /\ memoryCache' = memoryCache /\ storage' = storage
                  /\ fetches[f].upstatus >= 500
                  /\ \A c \in Callers :
                       (callers[c].pc = "join" /\ callers[c].awaiting = f)
                         => /\ callers'[c].pc = "done"
                            /\ callers'[c].resp.outcome = "resolved"
                            /\ callers'[c].resp.status = fetches[f].upstatus
                            /\ callers'[c].resp.cs # "LKG"
    ]_vars

\* C18 witness: the starter of a fetch and a joiner received the 500 of
\* the upstream, and both tiers are still empty for the key
C18_Witness ==
  \E c1, c2 \in Callers :
    /\ c1 # c2
    /\ callers[c1].pc = "done" /\ callers[c1].awaiting = c1
    /\ callers[c2].pc = "done" /\ callers[c2].awaiting = c1
    /\ fetches[c1].upstatus = 500
    /\ callers[c1].resp.outcome = "resolved" /\ callers[c1].resp.status = 500
    /\ callers[c2].resp.outcome = "resolved" /\ callers[c2].resp.status = 500
    /\ storage[callers[c1].key] = NoEntry /\ memoryCache[callers[c1].key] = NoEntry

\* C19: a fetch awaits the upstream call only from its creation, which is
\* also the step that registers it, until that call settles; once the
\* call has answered or thrown the fetch goes on to its fallback, its
\* write or its result and never awaits the upstream again.
C19_OneUpstreamCall ==
  [][\A f \in Callers :
       /\ (fetches'[f].pc = "fetching" /\ fetches'[f] # fetches[f])
            => fetches[f].pc = "none"
       /\ (fetches[f].pc = "fetching" /\ fetches'[f] # fetches[f])
            => fetches'[f].pc \in {"lkg5xx", "lkgCatch", "putting", "settled"}
       /\ \A k \in Keys :
            (inflightRequests'[k] = f /\ inflightRequests[k] # f)
              => (fetches[f].pc = "none" /\ fetches'[f].pc = "fetching")
    ]_vars

\* C19 witness: one fetch whose upstream call threw and one whose upstream
\* answered 500 have both settled, the first by rejecting
C19_Witness ==
  \E f, g \in Callers :
    /\ fetches[f].pc = "settled" /\ fetches[f].upstatus = Threw
    /\ callers[f].pc = "done" /\ callers[f].resp.outcome = "rejected"
    /\ fetches[g].pc = "settled" /\ fetches[g].upstatus = 500
    /\ callers[g].pc = "done" /\ callers[g].resp.status = 500

\* the specification of the claims about several keys: one instance
\* serves the calls of every key of Keys (the keys are interchangeable, so
\* the first call is for k1)
StartKey(c, k) == (c = 1 => k = "k1") /\ Start(c, k)

TwoKeyNext ==
  \/ Tick
  \/ Restart
  \/ \E c \in Callers, k \in Keys : StartKey(c, k)
  \/ \E c \in Callers : CheckStorageResume(c)
  \/ \E c \in Callers : TryServeStaleResume(c)
  \/ \E f \in Callers, st \in Statuses : UpstreamRespond(f, st)
  \/ \E f \in Callers : UpstreamThrow(f)
  \/ \E f \in Callers : Lkg5xxResume(f)
  \/ \E f \in Callers : LkgCatchResume(f)
  \/ \E f \in Callers : PutDone(f)
  \/ \E f \in Callers : PutFail(f)

TwoKeySpec == Init /\ [][TwoKeyNext]_vars

\* the calls and fetches that take a step belong to key k
MovedAreOf(k) ==
  \A c \in Callers :
    /\ callers'[c] # callers[c] => callers'[c].key = k
    /\ fetches'[c] # fetches[c] => fetches'[c].key = k

\* C20: a step of a call or of a fetch for key k changes the memory-tier
\* entry, the persistent-tier entry and the in-flight entry of no other
\* key, and the answer of a call comes from its own key only: a call joins
\* only a fetch of its key, a cache hit or a stale serve returns the entry
\* its key has in that tier, and a fetch falls back on the entry of its key.
C20_KeyIsolation ==
  [][/\ \A k \in Keys :
          ( /\ callers' # callers \/ fetches' # fetches
            /\ \/ memoryCache'[k] # memoryCache[k]
               \/ storage'[k] # storage[k]
               \/ inflightRequests'[k] # inflightRequests[k] )
          => MovedAreOf(k)
     /\ \A c \in Callers :
          LET k == callers'[c].key
          IN /\ callers'[c].pc = "join" => fetches'[callers'[c].awaiting].key = k
             /\ (callers[c].pc = "idle" /\ callers'[c].pc = "done")
                  => (callers'[c].resp.body = memoryCache[k].body /\ memoryCache[k] # NoEntry)
             /\ (callers[c].pc \in {"s2", "s4"} /\ callers'[c].pc = "done")
                  => (callers'[c].resp.body = storage[k].body /\ storage[k] # NoEntry)
             /\ (callers[c].pc = "join" /\ callers'[c].pc = "done" /\ callers'[c].resp.outcome = "resolved")
                  => \/ callers'[c].resp.body = callers[c].awaiting /\ callers'[c].resp.cs = "MISS"
                     \/ /\ callers'[c].resp.cs = "LKG"
                        /\ callers'[c].resp.body = storage[k].body /\ storage[k] # NoEntry
    ]_vars

\* C20 witness: calls for k1 and for k2 were each answered by the fetch of
\* their own key while a third fetch is pending, and each key holds the
\* entry of its own fetch in both tiers
C20_Witness ==
  \E c1, c2 \in Callers :
    /\ callers[c1].key = "k1" /\ callers[c2].key = "k2"
    /\ callers[c1].pc = "done" /\ callers[c1].resp.body = c1 /\ callers[c1].resp.cs = "MISS"
    /\ callers[c2].pc = "done" /\ callers[c2].resp.body = c2 /\ callers[c2].resp.cs = "MISS"
    /\ storage["k1"].body = c1 /\ storage["k2"].body = c2
    /\ memoryCache["k1"].body = c1 /\ memoryCache["k2"].body = c2
    /\ \E k \in Keys : inflightRequests[k] # NoFetch

\* the instance is constructed over a persistent tier that an earlier life
\* of the instance filled: k1 holds the entry of a 200 response persisted
\* at time 0 (body 0 is the body of that earlier upstream call)
WarmInit ==
  /\ now = 0
  /\ memoryCache = [k \in Keys |-> NoEntry]
  /\ storage = [k \in Keys |-> IF k = "k1" THEN CacheEntryOf(200, 0, 0) ELSE NoEntry]
  /\ inflightRequests = [k \in Keys |-> NoFetch]
  /\ callers = [c \in Callers |-> IdleCaller]
  /\ fetches = [f \in Callers |-> NoFetchRec]

WarmSpec == WarmInit /\ [][Next]_vars

\* C21 as claimed: a call that starts while the persistent tier holds the
\* entry a completed background refresh wrote, within freshTTL of it, is
\* answered from a cache tier with the body of that refresh and starts no
\* upstream fetch.
C21_AfterRefresh ==
  \A c \in Callers :
    ( /\ callers[c].win = "fresh" /\ callers[c].seen # NoEntry
      /\ callers[c].seen.body \in Callers
      /\ fetches[callers[c].seen.body].kind = "refresh" )
    => /\ callers[c].pc \in {"s2", "done"}
       /\ fetches[c].pc = "none"
       /\ callers[c].pc = "done" =>
             /\ callers[c].how \in {"memory", "storage"}
             /\ callers[c].resp.outcome = "resolved"
             /\ callers[c].resp.body = callers[c].seen.body

\* C22: when the upstream answers a fetch with a status below 400 at time
\* now, the entry with that status, the upstream body, persistedAt = now
\* and expiresAt = now + freshTTL is written to the memory tier and its
\* write to the persistent tier is issued, and that entry is what the
\* persistent tier holds when the write completes; when the upstream
\* answers with a status >= 400 no step of the fetch changes either tier.
C22_WriteRule ==
  [][\A f \in Callers :
       LET k == fetches[f].key
       IN /\ (fetches[f].pc = "fetching" /\ fetches'[f].upstatus \in 200..399)
               => /\ memoryCache'[k] = [status |-> fetches'[f].upstatus, body |-> f, cs |-> "MISS",
                                        expiresAt |-> now + FRESH_TTL_MS, persistedAt |-> now]
                  /\ fetches'[f].pc = "putting"
                  /\ fetches'[f].entry = memoryCache'[k]
          /\ (fetches[f].pc = "putting" /\ fetches'[f].pc = "settled")
               => storage'[k] = fetches[f].entry
          /\ (fetches'[f].upstatus >= 400 /\ fetches'[f] # fetches[f])
               => (memoryCache' = memoryCache /\ storage' = storage)
    ]_vars

\* C22 witness: a fetch answered 200 after time 0 has written both tiers,
\* and a fetch answered 404 has settled
C22_Witness ==
  \E f, g \in Callers :
    /\ fetches[f].pc = "settled" /\ fetches[f].upstatus = 200
    /\ storage[fetches[f].key].body = f /\ storage[fetches[f].key].persistedAt > 0
    /\ memoryCache[fetches[f].key] = storage[fetches[f].key]
    /\ fetches[g].pc = "settled" /\ fetches[g].upstatus = 404

\* C23: a call that starts while the registry holds a fetch for its key
\* and the memory tier holds an unexpired entry returns that entry at once;
\* one that starts while the persistent tier holds an entry within
\* freshTTL returns, when its read resumes, the entry the persistent tier
\* holds, whatever the registry holds; in both cases the call never awaits
\* the fetch, starts no upstream fetch and leaves the persistent tier and
\* the registry as they are.
C23_FreshnessOverJoin ==
  [][\A c \in Callers :
       LET k == callers'[c].key
       IN /\ ( /\ callers[c].pc = "idle" /\ callers'[c].pc # "idle"
               /\ memoryCache[k] # NoEntry /\ memoryCache[k].expiresAt > now )
             => /\ callers'[c].pc = "done"
                /\ callers'[c].resp.outcome = "resolved"
                /\ callers'[c].resp.status = memoryCache[k].status
                /\ callers'[c].resp.body = memoryCache[k].body
                /\ storage' = storage /\ inflightRequests' = inflightRequests
                /\ fetches' = fetches
          /\ ( /\ callers[c].pc = "idle" /\ callers'[c].pc # "idle"
               /\ storage[k] # NoEntry /\ storage[k].persistedAt + FRESH_TTL_MS > now )
             => /\ callers'[c].pc \in {"s2", "done"}
                /\ storage' = storage /\ inflightRequests' = inflightRequests
                /\ fetches' = fetches
          /\ (callers[c].pc = "s2" /\ callers[c].win = "fresh" /\ callers'[c] # callers[c])
             => /\ callers'[c].pc = "done"
                /\ callers'[c].resp.outcome = "resolved"
                /\ callers'[c].resp.status = storage[k].status
                /\ callers'[c].resp.body = storage[k].body
                /\ storage[k].persistedAt + FRESH_TTL_MS > callers[c].now
                /\ storage' = storage /\ inflightRequests' = inflightRequests
                /\ fetches' = fetches
    ]_vars

\* C23 witness: one call was answered from the memory tier with the entry
\* of a fetch that is still registered (its write is pending), and then
\* another from the persistent tier with the old entry, with which it
\* replaced the entry of the fetch in the memory tier
C23_Witness ==
  \E c1, c2, f \in Callers :
    /\ fetches[f].pc = "putting" /\ inflightRequests[fetches[f].key] = f
    /\ memoryCache[fetches[f].key].body # f
    /\ callers[c1].pc = "done" /\ callers[c1].how = "memory" /\ callers[c1].resp.body = f
    /\ callers[c1].key = fetches[f].key /\ callers[c1].awaiting = NoFetch
    /\ callers[c2].pc = "done" /\ callers[c2].how = "storage" /\ callers[c2].win = "fresh"
    /\ callers[c2].key = fetches[f].key /\ callers[c2].awaiting = NoFetch

\* C24: a call with start time t whose step-2 read returns an entry with
\* persistedAt + freshTTL > t returns that entry's status, headers and
\* body and writes the entry to the memory tier with expiresAt = t +
\* freshTTL and its persistedAt unchanged; a call that starts before that
\* expiresAt while the memory tier holds the entry is a memory hit on it.
C24_PersistentHitWarms ==
  [][\A c \in Callers :
       LET k == callers'[c].key
           e == storage[k]
           t == callers[c].now
       IN /\ ( /\ callers[c].pc = "s2" /\ callers'[c] # callers[c]
               /\ e # NoEntry /\ e.persistedAt + FRESH_TTL_MS > t )
             => /\ callers'[c].pc = "done"
                /\ callers'[c].resp.outcome = "resolved"
                /\ callers'[c].resp.status = e.status
                /\ callers'[c].resp.body = e.body
                /\ callers'[c].resp.cs = e.cs
                /\ memoryCache'[k] = [status |-> e.status, body |-> e.body, cs |-> e.cs,
                                      expiresAt |-> t + FRESH_TTL_MS, persistedAt |-> e.persistedAt]
          /\ (callers[c].pc = "s2" /\ callers'[c].pc = "done")
             => (e # NoEntry /\ e.persistedAt + FRESH_TTL_MS > t)
          /\ ( /\ callers[c].pc = "idle" /\ callers'[c].pc # "idle"
               /\ memoryCache[k] # NoEntry
               /\ memoryCache[k].expiresAt # memoryCache[k].persistedAt + FRESH_TTL_MS
               /\ now < memoryCache[k].expiresAt )
             => /\ callers'[c].pc = "done"
                /\ callers'[c].resp.body = memoryCache[k].body
                /\ callers'[c].resp.status = memoryCache[k].status
    ]_vars

\* C24 witness: a persistent-tier hit at start time 1 on the entry
\* persisted at 0 warmed the memory tier until 3, and a call that started
\* at 2 was a memory hit on it
C24_Witness ==
  \E c1, c2 \in Callers :
    /\ c1 < c2 /\ now = 2
    /\ callers[c1].pc = "done" /\ callers[c1].how = "storage"
    /\ callers[c2].pc = "done" /\ callers[c2].how = "memory"
    /\ callers[c2].resp.body = memoryCache[callers[c2].key].body
    /\ memoryCache[callers[c1].key].persistedAt = 0
    /\ memoryCache[callers[c1].key].expiresAt = 1 + FRESH_TTL_MS
    /\ callers[c1].key = callers[c2].key

\* C25: the five steps are taken in order and the first that matches
\* answers.  Step 1 returns on a memory hit, else the call reads the
\* persistent tier; when the read resumes step 2 returns on a fresh entry,
\* else step 3 joins the fetch the registry holds, else the call reads the
\* persistent tier again; when that read resumes step 4 returns the entry
\* as STALE when it is within staleTTL, else step 5 starts a fetch and
\* awaits it.  So a call is served STALE only after it found the registry
\* empty at step 3, and a call that finds a fetch registered at step 3
\* awaits it even when the persisted entry is within staleTTL.
C25_StepOrder ==
  [][\A c \in Callers :
       LET k == callers'[c].key
           e == storage[k]
           t == callers[c].now
           memoryHit == memoryCache[k] # NoEntry /\ memoryCache[k].expiresAt > now
           fresh == e # NoEntry /\ e.persistedAt + FRESH_TTL_MS > t
           stale == e # NoEntry /\ e.persistedAt + STALE_TTL_MS > t
       IN /\ (callers[c].pc = "idle" /\ callers'[c].pc # "idle")
             => IF memoryHit THEN callers'[c].pc = "done" /\ callers'[c].how = "memory"
                             ELSE callers'[c].pc = "s2"
          /\ (callers[c].pc = "s2" /\ callers'[c] # callers[c])
             => IF fresh THEN callers'[c].pc = "done" /\ callers'[c].how = "storage"
                ELSE IF inflightRequests[k] # NoFetch
                  THEN /\ callers'[c].pc = "join"
                       /\ callers'[c].awaiting = inflightRequests[k]
                       /\ fetches' = fetches
                  ELSE callers'[c].pc = "s4"
          /\ (callers[c].pc = "s4" /\ callers'[c] # callers[c])
             => IF stale THEN /\ callers'[c].pc = "done" /\ callers'[c].how = "stale"
                              /\ callers'[c].resp.cs = "STALE"
                         ELSE /\ callers'[c].pc = "join" /\ callers'[c].awaiting = c
                              /\ fetches'[c].pc = "fetching"
          /\ (callers'[c].how = "stale" /\ callers[c].how # "stale") => callers[c].pc = "s4"
    ]_vars

\* C25 witness: a call that started in the stale window of the persisted
\* entry found a refresh registered at step 3 and awaits it
C25_Witness ==
  \E c \in Callers :
    /\ callers[c].win = "stale" /\ callers[c].pc = "join"
    /\ callers[c].awaiting # c
    /\ fetches[callers[c].awaiting].kind = "refresh"
    /\ storage[callers[c].key] # NoEntry
    /\ storage[callers[c].key].persistedAt + STALE_TTL_MS > callers[c].now

\* C26 as claimed: a call with start time t is answered STALE, and looks
\* for a refresh to trigger, only with a persisted entry for which
\* persistedAt + freshTTL <= t < persistedAt + staleTTL; an entry written
\* after the call's step-2 read is fresh and is never served as STALE.
C26_StaleOnlyPastFresh ==
  [][\A c \in Callers :
       LET e == storage[callers[c].key]
           t == callers[c].now
       IN (callers[c].pc = "s4" /\ callers'[c].pc = "done")
            => /\ e # NoEntry
               /\ e.persistedAt + FRESH_TTL_MS <= t
               /\ t < e.persistedAt + STALE_TTL_MS
    ]_vars

\* C27 as claimed: whenever the memory tier holds an entry for a key the
\* persistent tier holds an entry for the key whose persistedAt is at
\* least as large, also while the write to the persistent tier is pending
\* and after it has failed.
C27_MemoryShadowsStorage ==
  \A k \in Keys :
    memoryCache[k] # NoEntry
      => /\ storage[k] # NoEntry
         /\ storage[k].persistedAt >= memoryCache[k].persistedAt

\* the state a restart leaves call c in when it is the first to arrive:
\* both the memory tier and the registry are empty and no other call and
\* no fetch is in progress
FirstAfterRestart(c) ==
  /\ \A k \in Keys : memoryCache[k] = NoEntry /\ inflightRequests[k] = NoFetch
  /\ \A d \in Callers \ {c} : callers[d].pc \in {"idle", "done"}
  /\ \A f \in Callers : fetches[f].pc \in {"none", "settled"}

\* C28: a step that drops an entry of the memory tier (a restart) empties
\* the memory tier and the registry and leaves the persistent tier as it
\* was; the first call after a restart that reads a persisted entry within
\* freshTTL returns that entry from the persistent tier and no fetch
\* starts, and one that reads an entry within the stale window goes on to
\* step 4 and is there answered with that entry marked STALE.
C28_Restart ==
  [][/\ (\E k \in Keys : memoryCache[k] # NoEntry /\ memoryCache'[k] = NoEntry)
          => /\ \A k \in Keys : memoryCache'[k] = NoEntry /\ inflightRequests'[k] = NoFetch
             /\ storage' = storage
     /\ \A c \in Callers :
          LET k == callers[c].key
              w == Window(storage[k], callers[c].now)
          IN /\ (FirstAfterRestart(c) /\ callers[c].pc = "s2" /\ callers'[c].pc # "s2" /\ w = "fresh")
                  => /\ callers'[c].pc = "done"
                     /\ callers'[c].how = "storage"
                     /\ callers'[c].resp = EntryResponse(storage[k])
                     /\ fetches' = fetches
             /\ (FirstAfterRestart(c) /\ callers[c].pc = "s2" /\ callers'[c].pc # "s2" /\ w = "stale")
                  => callers'[c].pc = "s4"
             /\ (FirstAfterRestart(c) /\ callers[c].pc = "s4" /\ callers'[c].pc # "s4" /\ w = "stale")
                  => /\ callers'[c].pc = "done"
                     /\ callers'[c].how = "stale"
                     /\ callers'[c].resp = StaleResponse(storage[k])
    ]_vars

\* after a restart one call was answered from the persistent tier (the
\* entry was fresh when it started and the memory tier missed) and another
\* was served the entry as STALE
C28_Witness ==
  \E c, d \in Callers :
    /\ callers[c].pc = "done" /\ callers[c].how = "storage" /\ callers[c].win = "fresh"
    /\ fetches[c].pc = "none"
    /\ callers[d].pc = "done" /\ callers[d].how = "stale" /\ callers[d].win = "stale"
    /\ callers[d].resp.body = callers[c].resp.body

\* response.json().catch(() => null): the body of a response that cannot
\* be parsed
NullBody == -1

\* mutant of UpstreamRespondUnparsable: the parse error is not caught, the
\* catch block of fetchUpstreamAndCache runs
UpstreamRespondUnparsableThrows(f, st) ==
  /\ fetches[f].pc = "fetching"
  /\ ~isServerError(st)
  /\ fetches' = [fetches EXCEPT ![f].pc = "lkgCatch", ![f].upstatus = Threw]
  /\ UNCHANGED <<now, memoryCache, storage, inflightRequests, callers>>

\* the upstream call resolves with a response of status st below 500 whose
\* body cannot be parsed: the body is null, the rest is as for any response
UpstreamRespondUnparsable(f, st) ==
  /\ fetches[f].pc = "fetching"
  /\ ~isServerError(st)
  /\ LET k == fetches[f].key
     IN IF isCacheable(st)
          THEN /\ memoryCache' = [memoryCache EXCEPT ![k] = CacheEntryOf(st, NullBody, now)]
               /\ fetches' = [fetches EXCEPT ![f].pc = "putting", ![f].upstatus = st, ![f].entry = CacheEntryOf(st, NullBody, now)]
               /\ UNCHANGED <<inflightRequests, callers>>
          ELSE /\ fetches' = [fetches EXCEPT ![f] = [fetches[f] EXCEPT !.pc = "settled", !.upstatus = st]]
               /\ inflightRequests' = DeleteInflight(k)
               /\ callers' = Delivered(f, UpstreamResponse(st, NullBody))
               /\ UNCHANGED memoryCache
  /\ UNCHANGED <<now, storage>>

\* the read of getLastKnownGood resumes in the 5xx branch with no entry,
\* and the body of the 5xx response, which is parsed next, cannot be parsed
Lkg5xxResumeUnparsable(f) ==
  /\ fetches[f].pc = "lkg5xx"
  /\ getLastKnownGood(storage[fetches[f].key], now) = NoResp
  /\ Settle(f, UpstreamResponse(fetches[f].upstatus, NullBody))
  /\ UNCHANGED <<now, memoryCache, storage>>

ParseNext ==
  \/ LiveNext
  \/ \E f \in Callers, st \in Statuses : UpstreamRespondUnparsable(f, st)
  \/ \E f \in Callers : Lkg5xxResumeUnparsable(f)

ParseSpec == Init /\ [][ParseNext]_vars

\* C29: a response whose body cannot be parsed is handled as any response
\* of its status, with a null body: below 400 the entry with the null body
\* is set in the memory tier and its write to the persistent tier issued,
\* from 400 the fetch resolves at once and nothing is written; every call
\* that receives a null body receives it in a resolved answer, with the
\* upstream status when the answer is the response of its fetch, and an
\* entry with a null body has a status below 400.
C29_UnparsableBody ==
  [][/\ \A f \in Callers, st \in Statuses :
          UpstreamRespondUnparsable(f, st) =>
            LET k == fetches[f].key
            IN IF st < 400
                 THEN /\ memoryCache'[k] = CacheEntryOf(st, NullBody, now)
                      /\ fetches'[f].pc = "putting"
                      /\ fetches'[f].entry = CacheEntryOf(st, NullBody, now)
                 ELSE /\ fetches'[f].pc = "settled"
                      /\ memoryCache' = memoryCache
                      /\ \A c \in Callers :
                           (callers[c].pc = "join" /\ callers[c].awaiting = f)
                             => callers'[c].resp = UpstreamResponse(st, NullBody)
     /\ \A c \in Callers :
          (callers'[c].pc = "done" /\ callers'[c].resp.body = NullBody)
            => /\ callers'[c].resp.outcome = "resolved"
               /\ callers'[c].resp.status \in Statuses
               /\ (callers'[c].how = "fetch" /\ callers'[c].resp.cs = "MISS")
                    => callers'[c].resp.status = fetches'[callers'[c].awaiting].upstatus
     /\ \A k \in Keys :
          /\ storage'[k].body = NullBody => storage'[k].status < 400
          /\ memoryCache'[k].body = NullBody => memoryCache'[k].status < 400
    ]_vars

\* a 200 response with an unparsable body was persisted and its caller
\* answered 200 with a null body, and another call was answered 404 with
\* a null body, which was not written
C29_Witness ==
  \E c, d \in Callers :
    /\ callers[c].pc = "done" /\ callers[c].how = "fetch"
    /\ callers[c].resp = UpstreamResponse(200, NullBody)
    /\ callers[d].pc = "done" /\ callers[d].how = "fetch"
    /\ callers[d].resp = UpstreamResponse(404, NullBody)
    /\ storage[callers[c].key].body = NullBody
    /\ storage[callers[c].key].status = 200

\* ------------------------------------------------ ProductCoalescer
\* src/src/do/ProductCoalescer.ts: getProduct takes the five steps of
\* fetchCoalesced with the same code (memory tier, persistent tier,
\* registry, stale serve, fetch), so Start, CheckStorageResume and
\* TryServeStaleResume model it too; its fetchUpstreamAndCache has no try
\* block, no 5xx branch and no status test.

\* ProductCoalescer.fetchUpstreamAndCache up to its await on storage.put:
\* the entry is set in the memory tier whatever the status
ProductUpstreamRespond(f, st) ==
  /\ fetches[f].pc = "fetching"
  /\ memoryCache' = [memoryCache EXCEPT ![fetches[f].key] = CacheEntryOf(st, f, now)]
  /\ fetches' = [fetches EXCEPT ![f].pc = "putting", ![f].upstatus = st, ![f].entry = CacheEntryOf(st, f, now)]
  /\ UNCHANGED <<now, storage, inflightRequests, callers>>

\* mutant of ProductUpstreamThrow: the persisted entry is substituted
\* when there is one
ProductUpstreamThrowLkg(f) ==
  /\ fetches[f].pc = "fetching"
  /\ fetches' = [fetches EXCEPT ![f] = [fetches[f] EXCEPT !.pc = "settled", !.upstatus = Threw]]
  /\ inflightRequests' = DeleteInflight(fetches[f].key)
  /\ LET lkg == getLastKnownGood(storage[fetches[f].key], now)
     IN callers' = Delivered(f, IF lkg # NoResp THEN lkg ELSE Rejection("UpstreamError"))
  /\ UNCHANGED <<now, memoryCache, storage>>

\* the upstream call rejects: ProductCoalescer.fetchUpstreamAndCache
\* throws, the .finally removes the registry entry, the awaiters reject
ProductUpstreamThrow(f) ==
  /\ fetches[f].pc = "fetching"
  /\ fetches' = [fetches EXCEPT ![f] = [fetches[f] EXCEPT !.pc = "settled", !.upstatus = Threw]]
  /\ inflightRequests' = DeleteInflight(fetches[f].key)
  /\ callers' = Delivered(f, Rejection("UpstreamError"))
  /\ UNCHANGED <<now, memoryCache, storage>>

\* storage.put rejects: ProductCoalescer.fetchUpstreamAndCache throws; the
\* memory tier keeps the entry
ProductPutFail(f) ==
  /\ fetches[f].pc = "putting"
  /\ Settle(f, Rejection("StorageError"))
  /\ UNCHANGED <<now, memoryCache, storage>>

ProductNext ==
  \/ Tick
  \/ Restart
  \/ \E c \in Callers, k \in OneKey : Start(c, k)
  \/ \E c \in Callers : CheckStorageResume(c)
  \/ \E c \in Callers : TryServeStaleResume(c)
  \/ \E f \in Callers, st \in Statuses : ProductUpstreamRespond(f, st)
  \/ \E f \in Callers : ProductUpstreamThrow(f)
  \/ \E f \in Callers : PutDone(f)
  \/ \E f \in Callers : ProductPutFail(f)

ProductSpec == Init /\ [][ProductNext]_vars

\* C30: in ProductCoalescer the step in which the upstream call of a fetch
\* answers sets the entry built from the response, of whatever status, in
\* the memory tier and issues its write, and a call answered with the
\* response of its fetch finds the key persisted; a call that starts
\* within freshTTL of the persisted entry is answered from a cache tier
\* and starts no fetch; no answer is a last-known-good substitution, the
\* calls that awaited a fetch whose upstream call failed are rejected with
\* its error, and the step that settles a fetch removes the registry entry
\* of its key.
C30_ProductVariant ==
  [][/\ \A f \in Callers :
          /\ fetches'[f].pc = "putting"
               => /\ fetches'[f].entry.status = fetches'[f].upstatus
                  /\ fetches'[f].entry.body = f
          /\ (fetches[f].pc # "settled" /\ fetches'[f].pc = "settled")
               => inflightRequests'[fetches[f].key] = NoFetch
          /\ (fetches[f].pc = "fetching" /\ fetches'[f].pc # "fetching" /\ fetches'[f].upstatus \in Statuses)
               => memoryCache'[fetches[f].key] = CacheEntryOf(fetches'[f].upstatus, f, now)
     /\ \A c \in Callers :
          /\ callers'[c].resp.cs # "LKG"
          /\ (callers'[c].pc = "done" /\ callers'[c].how = "fetch")
               => LET f == callers'[c].awaiting
                  IN /\ fetches'[f].pc = "settled"
                     /\ fetches'[f].upstatus = Threw => callers'[c].resp = Rejection("UpstreamError")
                     /\ callers'[c].resp.outcome = "resolved"
                          => /\ callers'[c].resp = UpstreamResponse(fetches'[f].upstatus, f)
                             /\ storage'[callers'[c].key] # NoEntry
          /\ callers'[c].win = "fresh"
               => /\ callers'[c].pc \in {"s2", "done"}
                  /\ fetches'[c].pc = "none"
                  /\ callers'[c].pc = "done"
                       => /\ callers'[c].how \in {"memory", "storage"}
                          /\ callers'[c].resp.outcome = "resolved"
    ]_vars

\* a 500 response was written to both tiers, a later call was answered
\* with it from a cache tier, and a call that started with an entry
\* persisted and whose upstream call failed was rejected
C30_Witness ==
  \E c, d \in Callers :
    /\ storage["k1"].status = 500
    /\ callers[c].pc = "done" /\ callers[c].how \in {"memory", "storage"}
    /\ callers[c].win = "fresh" /\ callers[c].resp.status = 500
    /\ callers[d].pc = "done" /\ callers[d].how = "fetch"
    /\ callers[d].resp = Rejection("UpstreamError")
    /\ callers[d].seen # NoEntry

\* ------------------------------------------------ createCoalescedHandler
\* src/src/routes/coalesced-handler.ts: the handler awaits fetchCoalesced
\* inside a try block and builds its Response from the result inside the
\* same block; the catch block answers 503.

\* the statuses with which the Response constructor accepts no body
NullBodyStatuses == {101, 204, 205, 304}

\* the upstream statuses of the handler's specification
HandlerStatuses == Statuses \cup {204, 503}

\* new Response(JSON.stringify(result.body), {status, headers}) throws a
\* TypeError when the status is a null body status: JSON.stringify of the
\* body of a result (a parsed value or null) is always a string
ResponseConstructorThrows(st) == st \in NullBodyStatuses

\* the handler's answer to a fetchCoalesced call that ended with r, given
\* that the parameters parsed and the binding exists
createCoalescedHandler(r) ==
  IF r.outcome = "rejected" \/ ResponseConstructorThrows(r.status)
    THEN [status |-> 503, body |-> 0, cs |-> "none", age |-> NoAge]
    ELSE [status |-> r.status, body |-> r.body, cs |-> r.cs, age |-> r.age]

HandlerNext ==
  \/ LiveNext
  \/ \E f \in Callers, st \in HandlerStatuses : UpstreamRespond(f, st)

HandlerSpec == Init /\ [][HandlerNext]_vars

\* C31 as claimed: the handler answers 503 exactly when the fetchCoalesced
\* call rejected, and otherwise answers with the status and the headers
\* of the result of the call.
C31_Handler503 ==
  \A c \in Callers :
    callers[c].pc = "done" =>
      LET r == callers[c].resp
          a == createCoalescedHandler(r)
      IN /\ a.status = 503 <=> r.outcome = "rejected"
         /\ r.outcome = "resolved"
              => /\ a.status = r.status
                 /\ a.cs = r.cs
                 /\ a.age = r.age

\* C32 as claimed: a fetch that settles from its last-known-good read (with
\* the entry, with the 5xx response or with the error thrown again) has
\* written nothing to either tier, and its last step changes neither; a
\* stale serve changes neither tier; the persisted entry of a key changes
\* only to the entry built from an upstream response below 400.
C32_FallbackWritesNothing ==
  [][/\ \A f \in Callers :
          (fetches[f].pc \in {"lkg5xx", "lkgCatch"} /\ fetches'[f].pc = "settled")
            => /\ memoryCache' = memoryCache
               /\ storage' = storage
               /\ memoryCache'[fetches[f].key].body # f
               /\ storage'[fetches[f].key].body # f
     /\ \A c \in Callers :
          (callers[c].pc = "s4" /\ callers'[c].pc = "done")
            => memoryCache' = memoryCache /\ storage' = storage
     /\ \A k \in Keys :
          storage'[k] # storage[k]
            => \E f \in Callers :
                 /\ fetches[f].key = k
                 /\ fetches[f].upstatus \in Statuses
                 /\ fetches[f].upstatus < 400
                 /\ storage'[k] = CacheEntryOf(fetches[f].upstatus, f, storage'[k].persistedAt)
    ]_vars

\* C33: every entry the memory tier or the persistent tier holds has a
\* status below 400, and so has every answer taken from an entry: a hit of
\* the memory tier or of the persistent tier, a stale serve and a
\* last-known-good substitution.
C33_CachedStatusBelow400 ==
  /\ \A k \in Keys :
       /\ memoryCache[k] # NoEntry => memoryCache[k].status \in 200..399
       /\ storage[k] # NoEntry => storage[k].status \in 200..399
  /\ \A c \in Callers :
       (callers[c].pc = "done" /\ (callers[c].how \in {"memory", "storage", "stale"} \/ callers[c].resp.cs = "LKG"))
         => /\ callers[c].resp.outcome = "resolved"
            /\ callers[c].resp.status \in 200..399

\* an entry is persisted, one call was served it as STALE and another as
\* LKG after the refresh was answered 500, and a 404 was passed through
C33_Witness ==
  \E c, d \in Callers, f, g \in Callers :
    /\ callers[c].pc = "done" /\ callers[c].resp.cs = "LKG"
    /\ callers[d].pc = "done" /\ callers[d].how = "stale"
    /\ fetches[f].pc = "settled" /\ fetches[f].upstatus = 500
    /\ fetches[g].pc = "settled" /\ fetches[g].upstatus = 404
    /\ storage["k1"] # NoEntry

\* C34 as claimed: while a fetch is pending the registry holds, for the key
\* of the fetch, the promise of that fetch; and the removal made when a
\* fetch settles leaves no other fetch of the key pending without its
\* registry entry.
C34_PendingIsRegistered ==
  [][/\ \A f \in Callers : Pending(f) => inflightRequests[fetches[f].key] = f
     /\ \A f, g \in Callers :
          ( /\ f # g /\ fetches[f].key = fetches[g].key
            /\ Pending(f) /\ fetches'[f].pc = "settled"
            /\ Pending(g) /\ inflightRequests[fetches[g].key] = g )
            => inflightRequests'[fetches[g].key] = g
    ]_vars

\* C35: when the reads and writes of the persistent tier complete and the
\* upstream calls settle, every call in progress returns, by resolving or
\* by rejecting; and a call never awaits a fetch that has settled.
C35_EveryCallReturns ==
  /\ \A c \in Callers :
       InProgress(c) ~> (callers[c].pc = "done" /\ callers[c].resp.outcome \in {"resolved", "rejected"})
  /\ [](\A c \in Callers : callers[c].pc = "join" => Pending(callers[c].awaiting))

\* a call that joined the fetch of another call has returned, as has the
\* call that started the fetch, both by rejecting
C35_Witness ==
  \E c, d \in Callers :
    /\ c # d
    /\ callers[c].pc = "done" /\ callers[c].how = "fetch" /\ callers[c].awaiting = d
    /\ callers[d].pc = "done" /\ callers[d].how = "fetch" /\ callers[d].awaiting = d
    /\ callers[c].resp.outcome = "rejected"
    /\ callers[d].resp.outcome = "rejected"
    /\ fetches[d].pc = "settled"
====
